---- MODULE Spec2Model ----
(***************************************************************************)
(* ESP-PC-Remote: the backend flag service (backend/main.js) and the       *)
(* device firmware (main/main.ino), as one state machine.                  *)
(***************************************************************************)
EXTENDS Integers, Sequences, FiniteSets, TLC

\* ---- backend flag service (main.js) ----
VARIABLES
  isOn,      \* let isOn
  bhist      \* the exchanges the backend has handled for other clients, oldest first

\* ---- device firmware (main.ino) ----
VARIABLES
  pc,                \* where the firmware is: setup, a step of loop(), a blocking call
  ret,               \* the caller a blocking call (connectToWiFi, triggerRelay) returns to
  millis,            \* millis(): the uptime counter, ms since boot
  config,            \* Config config
  prefs,             \* Preferences namespace "espremote" (flash; survives restarts)
  lastAPICheck, wifiConnected, lastStatus, lastLoggedStatus, lastLog,
  lastDisplayAnim, lastDisplaySwitch, displayMode,
  logBuffer, logIndex,
  logged,            \* the entries addLog() has written since boot, oldest first
  rebootedToday, lastRebootDay,
  lastGoodAPITime, lastGoodWiFiTime,
  attempts,          \* connectToWiFi: int attempts
  relayPin           \* level of RELAY_PIN

\* ---- the device's surroundings, and what a run has shown so far ----
VARIABLES
  linkUp,            \* WiFi.status() == WL_CONNECTED
  wall,              \* time(nullptr): the RTC, seconds; it runs on through a restart
  devReq,            \* the inbound HTTP request server.handleClient() finds, or NoReq
  devResp,           \* what the device's web server answered last
  horizon,           \* number of loop() iterations up to which a run is followed
  loops,             \* loop() iterations begun so far
  events,            \* link drops, inbound device requests and backend requests so far
  pulses,            \* completed relay pulses since power-on
  lastPoll,          \* the last flag poll: whether a GET was issued, what came back, what it did
  lastWatchdog,      \* the last watchdog decision: the two ages and whether it restarts
  schedDays,         \* calendar days (tm_mday) of the scheduled restarts so far
  setupDone          \* millis() when setup() returned in this uptime, 0 before

backendVars == <<isOn, bhist>>
ramVars == <<pc, ret, millis, config, lastAPICheck, wifiConnected, lastStatus,
             lastLoggedStatus, lastLog, lastDisplayAnim, lastDisplaySwitch, displayMode,
             logBuffer, logIndex, logged, rebootedToday, lastRebootDay, lastGoodAPITime,
             lastGoodWiFiTime, attempts, relayPin>>
envVars == <<linkUp, wall, devReq, devResp, horizon, loops, events>>
obsVars == <<pulses, lastPoll, lastWatchdog, schedDays, setupDone>>

vars == <<backendVars, ramVars, prefs, envVars, obsVars>>

\* ---- program constants ----
apiCheckInterval == 5000
displaySwitchInterval == 5000
displayAnimInterval == 300
displayModeCount == 3
LOG_SIZE == 20
maxOfflineMillis == 3600000
RelayDwell == 1000
ConnectDelay == 500
MaxAttempts == 20
LoopDelay == 100
ConfigPostDelay == 1500
DefaultRebootHour == 3
DefaultRebootMinute == 0
HIGH == 1
LOW == 0
\* The pin before pinMode(RELAY_PIN, OUTPUT): not driven.
FLOATING == 2

\* ---- bounds of the model ----
\* Requests to the backend followed when it runs alone.
MaxReqs == 4
\* Link drops, inbound device requests and other clients' backend requests
\* followed in a run of the device.
MaxEvents == 2
\* Scheduled restarts followed in a run.
MaxSched == 2
\* loop() iterations followed by the specification of the short-lived duties.
MaxLoops == 2
\* loop() iterations followed by the specification of the long-lived duties.
MaxLoopsLong == 4
\* loop() iterations followed by the specification with fairness.
MaxLoopsLive == 5
\* loop() iterations followed by the specification of the poll timer.
MaxLoopsPoll == 4
\* loop() iterations, and inbound requests, followed by the specification of the log.
MaxLoopsLog == 9

(***************************************************************************)
(* Backend: the request handler                                            *)
(***************************************************************************)
Methods == {"GET", "POST", "HEAD"}
Urls == {"/", "/set/on", "/on/off-path", "/?on=1"}

\* JSON.stringify({ on: flag })
StringifyOn(flag) == IF flag THEN "{\"on\":true}" ELSE "{\"on\":false}"
SetBody == "{\"message\":\"LED state will be true for the next GET / request\"}"
NotFoundBody == "{\"error\":\"Not Found\"}"
NotAllowedBody == "{\"error\":\"Method Not Allowed\"}"

HandlerClearMissing(method, url, flag) ==
  IF method = "GET"
  THEN IF url = "/"
       THEN [code |-> 200, body |-> StringifyOn(flag), flag |-> flag]
       ELSE IF url = "/set/on"
       THEN [code |-> 200, body |-> SetBody, flag |-> TRUE]
       ELSE [code |-> 404, body |-> NotFoundBody, flag |-> flag]
  ELSE [code |-> 405, body |-> NotAllowedBody, flag |-> flag]

HandlerSetToggles(method, url, flag) ==
  IF method = "GET"
  THEN IF url = "/"
       THEN [code |-> 200, body |-> StringifyOn(flag), flag |-> FALSE]
       ELSE IF url = "/set/on"
       THEN [code |-> 200, body |-> SetBody, flag |-> ~flag]
       ELSE [code |-> 404, body |-> NotFoundBody, flag |-> flag]
  ELSE [code |-> 405, body |-> NotAllowedBody, flag |-> flag]

HandlerNotFoundClears(method, url, flag) ==
  IF method = "GET"
  THEN IF url = "/"
       THEN [code |-> 200, body |-> StringifyOn(flag), flag |-> FALSE]
       ELSE IF url = "/set/on"
       THEN [code |-> 200, body |-> SetBody, flag |-> TRUE]
       ELSE [code |-> 404, body |-> NotFoundBody, flag |-> FALSE]
  ELSE [code |-> 405, body |-> NotAllowedBody, flag |-> flag]

HandlerAnyMethodSets(method, url, flag) ==
  IF url = "/set/on"
  THEN [code |-> 200, body |-> SetBody, flag |-> TRUE]
  ELSE IF method = "GET"
  THEN IF url = "/"
       THEN [code |-> 200, body |-> StringifyOn(flag), flag |-> FALSE]
       ELSE [code |-> 404, body |-> NotFoundBody, flag |-> flag]
  ELSE [code |-> 405, body |-> NotAllowedBody, flag |-> flag]

\* The handler of http.createServer: the status code, the body and the flag's
\* value after the request, from the request and the flag's value before it.
Handler(method, url, flag) ==
  IF method = "GET"
  THEN IF url = "/"
       THEN [code |-> 200, body |-> StringifyOn(flag), flag |-> FALSE]
       ELSE IF url = "/set/on"
       THEN [code |-> 200, body |-> SetBody, flag |-> TRUE]
       ELSE [code |-> 404, body |-> NotFoundBody, flag |-> flag]
  ELSE [code |-> 405, body |-> NotAllowedBody, flag |-> flag]

\* One request of a client other than the device, handled to completion.
BackendRequest(method, url, max) ==
  /\ events < max
  /\ events' = events + 1
  /\ pc \in {"off", "loop_top", "http"}
  /\ LET r == Handler(method, url, isOn) IN
       /\ isOn' = r.flag
       /\ bhist' = Append(bhist, [method |-> method, url |-> url, before |-> isOn,
                                  code |-> r.code, body |-> r.body, after |-> r.flag])
  /\ UNCHANGED <<ramVars, prefs, linkUp, wall, devReq, devResp, horizon, loops, obsVars>>

(***************************************************************************)
(* Device: helpers                                                         *)
(***************************************************************************)
NoReq == [method |-> "", uri |-> ""]
NoResp == [code |-> 0, type |-> "", body |-> [kind |-> "none"]]
NoPoll == [sent |-> FALSE, link |-> FALSE, done |-> FALSE, code |-> 0, payload |-> "",
           status |-> "", triggered |-> FALSE, fails |-> 0, url |-> ""]
NoWatchdog == [wifiAge |-> 0, apiAge |-> 0, restart |-> FALSE]

\* millis() is an unsigned long of 32 bits. The variable millis and the
\* timestamps taken from it are integers congruent to the uptime modulo 2^32:
\* the uptime itself in a run followed from boot, the uptime less 2^32 in a run
\* followed across the wrap of the counter. Counter(m) is the 32-bit pattern
\* the firmware holds for m, as two halves of 16 bits.
HalfWord == 65536

Counter(m) == [hi |-> (m \div HalfWord) % HalfWord, lo |-> m % HalfWord]

\* a - b on unsigned long: the difference modulo 2^32, half by half with borrow.
Sub32(a, b) ==
  LET borrow == IF a.lo < b.lo THEN 1 ELSE 0
  IN [hi |-> (a.hi - b.hi - borrow) % HalfWord, lo |-> (a.lo - b.lo) % HalfWord]

\* The number a 32-bit pattern stands for (patterns below 2^31 only).
Value(x) == x.hi * HalfWord + x.lo

\* a < b on unsigned long.
Less32(a, b) == a.hi < b.hi \/ (a.hi = b.hi /\ a.lo < b.lo)

\* now - last as the firmware computes it: unsigned long subtraction.
ElapsedClamped(now, last) ==
  IF Less32(Counter(now), Counter(last)) THEN 0
  ELSE Value(Sub32(Counter(now), Counter(last)))

Elapsed(now, last) == Value(Sub32(Counter(now), Counter(last)))

\* localtime(): the calendar fields the firmware reads, from the RTC's seconds.
tm_sec(w) == w % 60
tm_min(w) == (w \div 60) % 60
tm_hour(w) == (w \div 3600) % 24
tm_mday(w) == 1 + (w \div 86400)

\* "%02d"
Pad2(n) == IF n < 10 THEN "0" \o ToString(n) ELSE ToString(n)

getTimeString == Pad2(tm_hour(wall)) \o ":" \o Pad2(tm_min(wall)) \o ":" \o Pad2(tm_sec(wall))

\* addLog(msg), on the ring buffer and its write cursor.
addLogShortWrap(log, msg) ==
  [buf |-> [log.buf EXCEPT ![log.idx] = "[" \o getTimeString \o "] " \o msg],
   idx |-> (log.idx + 1) % (LOG_SIZE - 1),
   hist |-> Append(log.hist, "[" \o getTimeString \o "] " \o msg)]

addLog(log, msg) ==
  [buf |-> [log.buf EXCEPT ![log.idx] = "[" \o getTimeString \o "] " \o msg],
   idx |-> (log.idx + 1) % LOG_SIZE,
   hist |-> Append(log.hist, "[" \o getTimeString \o "] " \o msg)]

CurLog == [buf |-> logBuffer, idx |-> logIndex, hist |-> logged]
EmptyBuffer == [i \in 0..(LOG_SIZE - 1) |-> ""]

\* What updateDisplay(line1, line2) stores in lastLog and hands to addLog.
DisplayLine(line1, line2) == line1 \o " | " \o line2

\* The entry written last ("" when nothing was logged since boot).
LastEntry(log) == log.buf[(log.idx + LOG_SIZE - 1) % LOG_SIZE]

\* WiFi.localIP().toString()
LocalIP == IF linkUp THEN "192.168.1.99" ELSE "0.0.0.0"

\* The empty key-value store.
NoPrefs == [k \in {} |-> ""]

\* preferences.getString(key, def) / getInt(key, def)
GetPrefDefault(store, key, def) == def

GetPref(store, key, def) == IF key \in DOMAIN store THEN store[key] ELSE def

loadConfig(store) ==
  [wifi_ssid     |-> GetPref(store, "ssid", "WIFI_SSID"),
   wifi_password |-> GetPref(store, "wifipw", "WIFI_PASSWORD"),
   api_url       |-> GetPref(store, "apiurl", "API_URL"),
   static_ip     |-> GetPref(store, "staticip", "STATIC_IP"),
   gateway       |-> GetPref(store, "gateway", "GATEWAY"),
   subnet        |-> GetPref(store, "subnet", "SUBNET"),
   dns1          |-> GetPref(store, "dns1", "DNS1"),
   dns2          |-> GetPref(store, "dns2", "DNS2"),
   reboot_hour   |-> GetPref(store, "reboot_hour", DefaultRebootHour),
   reboot_minute |-> GetPref(store, "reboot_minute", DefaultRebootMinute)]

\* saveConfig(): the store after every field of cfg is put under its key.
saveConfig(store, cfg) ==
  ("ssid" :> cfg.wifi_ssid) @@ ("wifipw" :> cfg.wifi_password) @@ ("apiurl" :> cfg.api_url)
    @@ ("staticip" :> cfg.static_ip) @@ ("gateway" :> cfg.gateway) @@ ("subnet" :> cfg.subnet)
    @@ ("dns1" :> cfg.dns1) @@ ("dns2" :> cfg.dns2) @@ ("reboot_hour" :> cfg.reboot_hour)
    @@ ("reboot_minute" :> cfg.reboot_minute) @@ store

\* The Config struct as constructed: empty strings, reboot time 3:00.
ConfigInit ==
  [wifi_ssid |-> "", wifi_password |-> "", api_url |-> "", static_ip |-> "",
   gateway |-> "", subnet |-> "", dns1 |-> "", dns2 |-> "",
   reboot_hour |-> DefaultRebootHour, reboot_minute |-> DefaultRebootMinute]

\* deserializeJson(doc, payload) succeeds, over the bodies a poll can receive.
JsonParses(payload) ==
  payload \in {StringifyOn(TRUE), StringifyOn(FALSE), SetBody, NotFoundBody, NotAllowedBody}

\* bool shouldTurnOn = doc["on"]: false when the document has no "on".
JsonOn(payload) == payload = StringifyOn(TRUE)

(***************************************************************************)
(* Device: setup(), loop() and the handlers, one action per step between   *)
(* two blocking calls                                                      *)
(***************************************************************************)
timeVars == <<lastAPICheck, lastGoodAPITime, lastGoodWiFiTime>>
dispVars == <<lastDisplayAnim, lastDisplaySwitch, displayMode>>
logVars == <<logBuffer, logIndex, logged, lastLog>>
schedVars == <<rebootedToday, lastRebootDay>>
statusVars == <<lastStatus, lastLoggedStatus>>

\* String::toInt() on a form value given character by character: leading
\* blanks are skipped, an optional sign is taken, then the digits up to the
\* first other character; the value is 0 when there is no digit.
DigitOf ==
  ("0" :> 0) @@ ("1" :> 1) @@ ("2" :> 2) @@ ("3" :> 3) @@ ("4" :> 4) @@ ("5" :> 5)
    @@ ("6" :> 6) @@ ("7" :> 7) @@ ("8" :> 8) @@ ("9" :> 9)

RECURSIVE Digits(_, _)
Digits(cs, acc) ==
  IF cs = <<>> \/ Head(cs) \notin DOMAIN DigitOf THEN acc
  ELSE Digits(Tail(cs), acc * 10 + DigitOf[Head(cs)])

RECURSIVE SkipBlanks(_)
SkipBlanks(cs) == IF cs # <<>> /\ Head(cs) = " " THEN SkipBlanks(Tail(cs)) ELSE cs

toInt(cs) ==
  LET t == SkipBlanks(cs) IN
  IF t # <<>> /\ Head(t) = "-" THEN 0 - Digits(Tail(t), 0)
  ELSE IF t # <<>> /\ Head(t) = "+" THEN Digits(Tail(t), 0)
  ELSE Digits(t, 0)

\* server.hasArg(key) ? server.arg(key) : the field as it is.
ArgOrEmpty(args, key, old) == IF key \in DOMAIN args THEN args[key] ELSE ""

ArgOr(args, key, old) == IF key \in DOMAIN args THEN args[key] ELSE old

\* handleConfigPost(): the Config struct after the ten hasArg() statements.
handleConfigPostWholesale(cfg, args) ==
  [wifi_ssid     |-> ArgOrEmpty(args, "ssid", cfg.wifi_ssid),
   wifi_password |-> ArgOrEmpty(args, "wifipw", cfg.wifi_password),
   api_url       |-> ArgOrEmpty(args, "apiurl", cfg.api_url),
   static_ip     |-> ArgOrEmpty(args, "staticip", cfg.static_ip),
   gateway       |-> ArgOrEmpty(args, "gateway", cfg.gateway),
   subnet        |-> ArgOrEmpty(args, "subnet", cfg.subnet),
   dns1          |-> ArgOrEmpty(args, "dns1", cfg.dns1),
   dns2          |-> ArgOrEmpty(args, "dns2", cfg.dns2),
   reboot_hour   |-> IF "reboot_hour" \in DOMAIN args THEN toInt(args["reboot_hour"]) ELSE 0,
   reboot_minute |-> IF "reboot_minute" \in DOMAIN args THEN toInt(args["reboot_minute"]) ELSE 0]

handleConfigPost(cfg, args) ==
  [wifi_ssid     |-> ArgOr(args, "ssid", cfg.wifi_ssid),
   wifi_password |-> ArgOr(args, "wifipw", cfg.wifi_password),
   api_url       |-> ArgOr(args, "apiurl", cfg.api_url),
   static_ip     |-> ArgOr(args, "staticip", cfg.static_ip),
   gateway       |-> ArgOr(args, "gateway", cfg.gateway),
   subnet        |-> ArgOr(args, "subnet", cfg.subnet),
   dns1          |-> ArgOr(args, "dns1", cfg.dns1),
   dns2          |-> ArgOr(args, "dns2", cfg.dns2),
   reboot_hour   |-> IF "reboot_hour" \in DOMAIN args THEN toInt(args["reboot_hour"])
                     ELSE cfg.reboot_hour,
   reboot_minute |-> IF "reboot_minute" \in DOMAIN args THEN toInt(args["reboot_minute"])
                     ELSE cfg.reboot_minute]

\* The positions at which the web server has been started.
ServingPcs == {"loop_top", "relay", "track", "http", "wifi_check", "watchdog", "display", "sched"}

\* The positions at which the firmware waits (a delay, a request in flight, the
\* time spent serving): the surroundings change while it waits.
WaitingPcs == {"connect", "loop_top", "relay", "http", "restart"}

\* Time d passes on the uptime counter.
Advance(d) == millis' = millis + d

SetLog(log, last) ==
  logBuffer' = log.buf /\ logIndex' = log.idx /\ logged' = log.hist /\ lastLog' = last

\* setup() up to the wait loop of connectToWiFi().
Setup ==
  /\ pc = "boot"
  /\ LET cfg == loadConfig(prefs)
         l1 == addLog(CurLog, DisplayLine("Initializing...", ""))
         l2 == addLog(l1, DisplayLine("Connecting WiFi", cfg.wifi_ssid))
     IN /\ config' = cfg
        /\ SetLog(l2, DisplayLine("Connecting WiFi", cfg.wifi_ssid))
  /\ relayPin' = HIGH
  /\ attempts' = 0
  /\ pc' = "connect"
  /\ ret' = "setup"
  /\ UNCHANGED <<millis, timeVars, dispVars, schedVars, statusVars, wifiConnected>>
  /\ UNCHANGED <<backendVars, prefs, envVars, obsVars>>

\* connectToWiFi(): one turn of the wait loop, delay(500).
ConnectWait ==
  /\ pc = "connect"
  /\ ~linkUp /\ attempts < MaxAttempts
  /\ Advance(ConnectDelay)
  /\ attempts' = attempts + 1
  /\ UNCHANGED <<pc, ret, config, timeVars, dispVars, logVars, schedVars, statusVars,
                 wifiConnected, relayPin>>
  /\ UNCHANGED <<backendVars, prefs, envVars, obsVars>>

\* connectToWiFi() after the wait loop: the flag is set when the station is
\* associated and is not written otherwise.
ConnectFlagAlways == TRUE

ConnectFlag == IF linkUp THEN TRUE ELSE wifiConnected

\* connectToWiFi(): the wait loop is left; the flag is set when the link is up.
ConnectDone ==
  /\ pc = "connect"
  /\ linkUp \/ attempts >= MaxAttempts
  /\ wifiConnected' = ConnectFlag
  /\ IF linkUp
     THEN SetLog(addLog(CurLog, DisplayLine("WiFi Connected", LocalIP)),
                 DisplayLine("WiFi Connected", LocalIP))
     ELSE SetLog(addLog(CurLog, DisplayLine("WiFi Failed", "Check credentials")),
                    DisplayLine("WiFi Failed", "Check credentials"))
  /\ pc' = IF ret = "setup" THEN "setup_end" ELSE "watchdog"
  /\ ret' = ""
  /\ UNCHANGED <<millis, config, timeVars, dispVars, schedVars, statusVars, attempts, relayPin>>
  /\ UNCHANGED <<backendVars, prefs, envVars, obsVars>>

\* setup(): the value its last two statements give the watchdog timestamps.
SetupStampAsLoaded == lastGoodAPITime

SetupStamp == millis

\* setup() after connectToWiFi(): mDNS, OTA, the route table, the two timestamps.
SetupEnd(mdnsOk) ==
  /\ pc = "setup_end"
  /\ LET l1 == addLog(CurLog, IF mdnsOk THEN DisplayLine("mDNS Ready", "remote.local")
                                        ELSE DisplayLine("mDNS Error", ""))
         l2 == addLog(l1, DisplayLine("Server Ready", "IP: " \o LocalIP))
     IN SetLog(l2, DisplayLine("Server Ready", "IP: " \o LocalIP))
  /\ lastGoodWiFiTime' = SetupStamp
  /\ lastGoodAPITime' = SetupStamp
  /\ setupDone' = millis
  /\ pc' = "loop_top"
  /\ UNCHANGED <<ret, millis, config, lastAPICheck, dispVars, schedVars, statusVars,
                 wifiConnected, attempts, relayPin>>
  /\ UNCHANGED <<backendVars, prefs, envVars, pulses, lastPoll, lastWatchdog, schedDays>>

\* handleLogTailwind(): the entries listed, from the write cursor on, empty slots skipped.
LogPageFromZero(log) ==
  SelectSeq([i \in 1..LOG_SIZE |-> log.buf[i - 1]], LAMBDA e : e # "")

LogPage(log) ==
  SelectSeq([i \in 1..LOG_SIZE |-> log.buf[(log.idx + i - 1) % LOG_SIZE]], LAMBDA e : e # "")

\* The route table of setup(): the answer to a request other than GET /on.
Routed(req) ==
  IF req.method = "GET" /\ req.uri = "/"
  THEN [code |-> 200, type |-> "text/html", body |-> [kind |-> "status"]]
  ELSE IF req.method = "GET" /\ req.uri = "/config"
  THEN [code |-> 200, type |-> "text/html", body |-> [kind |-> "config"]]
  ELSE IF req.method = "GET" /\ req.uri = "/log"
  THEN [code |-> 200, type |-> "text/html", body |-> [kind |-> "log", entries |-> LogPage(CurLog)]]
  ELSE [code |-> 404, type |-> "text/plain", body |-> [kind |-> "notfound", text |-> "Not found: " \o req.uri]]

\* Whether the route table sends the request to handlePowerOn.
IsPowerOnWhenConnected(req) == req.method = "GET" /\ req.uri = "/on" /\ wifiConnected

IsPowerOn(req) == req.method = "GET" /\ req.uri = "/on"

\* loop(): ArduinoOTA.handle() and server.handleClient(), which take d ms and
\* leave the RTC at w, later by the whole minutes of d at least; a GET /on
\* enters handlePowerOn() and triggerRelay() up to its delay(1000).
LoopHandleClient(d, w) ==
  /\ pc = "loop_top"
  /\ loops < horizon
  /\ loops' = loops + 1
  /\ Advance(d)
  /\ w >= wall + 60 * (d \div 60000)
  /\ wall' = w
  /\ IF IsPowerOn(devReq)
     THEN /\ relayPin' = LOW
          /\ pc' = "relay"
          /\ ret' = "on"
          /\ UNCHANGED <<devReq, devResp>>
     ELSE /\ pc' = "track"
          /\ IF devReq = NoReq
             THEN UNCHANGED <<devReq, devResp>>
             ELSE devResp' = Routed(devReq) /\ devReq' = NoReq
          /\ UNCHANGED <<relayPin, ret>>
  /\ UNCHANGED <<config, timeVars, dispVars, logVars, schedVars, statusVars, wifiConnected, attempts>>
  /\ UNCHANGED <<backendVars, prefs, linkUp, horizon, events, obsVars>>

\* checkAPI(), "Log only if status changed": the log after the status is set.
StatusLine(status) == DisplayLine("Status: " \o status, "IP: " \o LocalIP)

\* checkAPI(), "Log only if status changed": the status line goes to the log
\* when the status differs from the one logged last.
PollLogAlways(log, status) == addLog(log, StatusLine(status))

PollLog(log, status) ==
  IF status # lastLoggedStatus THEN addLog(log, StatusLine(status)) ELSE log

\* triggerRelay(): the level written after the dwell.
ReleaseLevelStuck == LOW

ReleaseLevel == HIGH

\* triggerRelay() from its delay(1000) on, then the rest of the caller:
\* handlePowerOn() (log, JSON answer) or checkAPI() (status, log) and, in loop(),
\* lastAPICheck = millis().
RelayRelease ==
  /\ pc = "relay"
  /\ Advance(RelayDwell)
  /\ relayPin' = ReleaseLevel
  /\ pulses' = pulses + 1
  /\ LET l1 == addLog(CurLog, DisplayLine("PC POWER ON!", "Signal Sent")) IN
     IF ret = "on"
     THEN /\ SetLog(addLog(l1, "Manual Power ON via /on"), DisplayLine("PC POWER ON!", "Signal Sent"))
          /\ devResp' = [code |-> 200, type |-> "application/json",
                         body |-> [kind |-> "json", status |-> "success",
                                   message |-> "PC Power On Signal Sent",
                                   timestamp |-> millis']]
          /\ devReq' = NoReq
          /\ pc' = "track"
          /\ UNCHANGED <<statusVars, lastAPICheck, lastPoll>>
     ELSE /\ lastStatus' = "API Triggered ON"
          /\ SetLog(PollLog(l1, "API Triggered ON"), StatusLine("API Triggered ON"))
          /\ lastLoggedStatus' = "API Triggered ON"
          /\ lastAPICheck' = millis'
          /\ lastPoll' = [lastPoll EXCEPT !.done = TRUE, !.status = "API Triggered ON",
                                          !.triggered = TRUE]
          /\ pc' = "wifi_check"
          /\ UNCHANGED <<devReq, devResp>>
  /\ ret' = ""
  /\ UNCHANGED <<config, lastGoodAPITime, lastGoodWiFiTime, dispVars, schedVars,
                 wifiConnected, attempts>>
  /\ UNCHANGED <<backendVars, prefs, linkUp, wall, horizon, loops, events, lastWatchdog, schedDays, setupDone>>

\* checkAPI(): the URL handed to http.begin().
PollUrl == "API_URL"

\* The connectivity gate of checkAPI(): the GET is issued.
PollGateInverted == ~wifiConnected

PollGate == wifiConnected

\* The timer of "Check API every 5 seconds": checkAPI() is called now.
PollDueBackoff(now, last) == Elapsed(now, last) >= apiCheckInterval * (1 + lastPoll.fails)

PollDue(now, last) == Elapsed(now, last) >= apiCheckInterval

\* loop(): "Track WiFi connection" and "Check API every 5 seconds" up to http.GET().
LoopTrack ==
  /\ pc = "track"
  /\ lastGoodWiFiTime' = IF linkUp THEN millis ELSE lastGoodWiFiTime
  /\ IF PollDue(millis, lastAPICheck)
     THEN IF PollGate
          THEN /\ pc' = "http"
               /\ lastPoll' = [NoPoll EXCEPT !.sent = TRUE, !.link = linkUp,
                                             !.fails = lastPoll.fails, !.url = PollUrl]
               /\ UNCHANGED lastAPICheck
          ELSE /\ pc' = "wifi_check"
               /\ lastAPICheck' = millis
               /\ lastPoll' = [NoPoll EXCEPT !.link = linkUp, !.done = TRUE, !.status = lastStatus,
                                             !.fails = lastPoll.fails]
     ELSE /\ pc' = "wifi_check"
          /\ UNCHANGED <<lastAPICheck, lastPoll>>
  /\ UNCHANGED <<ret, millis, config, lastGoodAPITime, dispVars, logVars, schedVars, statusVars,
                 wifiConnected, attempts, relayPin>>
  /\ UNCHANGED <<backendVars, prefs, envVars, pulses, lastWatchdog, schedDays, setupDone>>

\* What the network can make of a poll: the backend's answer delivered ("ok"),
\* the request handled but the answer lost ("lost"), no connection ("refused"),
\* a 200 from something that is not the flag service ("garbled"), another status.
\* Each with the time http.GET() takes: the read timeout is 3000 ms, the connect
\* timeout 2000 ms.
PollOutcomes ==
  {[kind |-> "ok", code |-> 200, ms |-> 0], [kind |-> "lost", code |-> -11, ms |-> 3000],
   [kind |-> "refused", code |-> -1, ms |-> 2000], [kind |-> "garbled", code |-> 200, ms |-> 0],
   [kind |-> "status", code |-> 404, ms |-> 0], [kind |-> "status", code |-> 500, ms |-> 0]}

\* The status checkAPI() sets for a response that does not trigger the relay.
StatusOfNoOffline(httpCode, payload) ==
  IF httpCode = 200
  THEN IF JsonParses(payload) THEN "API: OFF" ELSE "API Parse Error"
  ELSE "API Error: " \o ToString(httpCode)

StatusOf(httpCode, payload) ==
  IF httpCode = 200
  THEN IF JsonParses(payload) THEN "API: OFF" ELSE "API Parse Error"
  ELSE IF httpCode > 0 THEN "API Error: " \o ToString(httpCode)
  ELSE "API Offline"

\* checkAPI(): the response makes it call triggerRelay().
ShouldTriggerOn200(httpCode, payload) == httpCode = 200

ShouldTrigger(httpCode, payload) == httpCode = 200 /\ JsonParses(payload) /\ JsonOn(payload)

\* checkAPI(): the response makes it set lastGoodAPITime = millis().
GoodPollParsed(httpCode, payload) == httpCode = 200 /\ JsonParses(payload)

GoodPoll(httpCode, payload) == httpCode = 200

\* checkAPI() from the return of http.GET() to its end or to
\* the delay(1000) of triggerRelay(); then, in loop(), lastAPICheck = millis().
PollResponse(o) ==
  /\ pc = "http"
  /\ Advance(o.ms)
  /\ o.kind \in {"ok", "garbled", "status"} => linkUp
  /\ o.kind = "lost" => (linkUp \/ lastPoll.link)
  /\ LET r == Handler("GET", "/", isOn)
         httpCode == IF o.kind = "ok" THEN r.code ELSE o.code
         payload == IF o.kind = "ok" THEN r.body
                    ELSE IF o.kind = "garbled" THEN "<html>Sign in</html>"
                    ELSE IF o.kind = "status" THEN NotFoundBody
                    ELSE ""
     IN /\ isOn' = IF o.kind \in {"ok", "lost"} THEN r.flag ELSE isOn
        /\ lastGoodAPITime' = IF GoodPoll(httpCode, payload) THEN millis' ELSE lastGoodAPITime
        /\ IF ShouldTrigger(httpCode, payload)
           THEN /\ relayPin' = LOW
                /\ pc' = "relay"
                /\ ret' = "poll"
                /\ lastPoll' = [lastPoll EXCEPT !.code = httpCode, !.payload = payload,
                                                !.fails = 0]
                /\ UNCHANGED <<statusVars, logVars, lastAPICheck>>
           ELSE /\ lastStatus' = StatusOf(httpCode, payload)
                /\ SetLog(PollLog(CurLog, StatusOf(httpCode, payload)),
                          StatusLine(StatusOf(httpCode, payload)))
                /\ lastLoggedStatus' = StatusOf(httpCode, payload)
                /\ lastAPICheck' = millis'
                /\ lastPoll' = [lastPoll EXCEPT !.code = httpCode, !.payload = payload,
                                                !.done = TRUE,
                                                !.status = StatusOf(httpCode, payload),
                                                !.fails = IF httpCode = 200 THEN 0
                                                          ELSE lastPoll.fails + 1]
                /\ pc' = "wifi_check"
                /\ UNCHANGED <<relayPin, ret>>
  /\ UNCHANGED <<bhist, config, lastGoodWiFiTime, dispVars, schedVars, wifiConnected, attempts>>
  /\ UNCHANGED <<prefs, envVars, pulses, lastWatchdog, schedDays, setupDone>>

\* loop(): the condition of "Check WiFi connection".
LinkLostAnyTime == ~linkUp

LinkLost == ~linkUp /\ wifiConnected

\* loop(): "Check WiFi connection", up to the wait loop of connectToWiFi().
LoopWiFiCheck ==
  /\ pc = "wifi_check"
  /\ IF LinkLost
     THEN /\ wifiConnected' = FALSE
          /\ LET l1 == addLog(CurLog, DisplayLine("WiFi Lost", "Reconnecting..."))
                 l2 == addLog(l1, DisplayLine("Connecting WiFi", config.wifi_ssid))
             IN SetLog(l2, DisplayLine("Connecting WiFi", config.wifi_ssid))
          /\ attempts' = 0
          /\ pc' = "connect"
          /\ ret' = "loop"
     ELSE /\ pc' = "watchdog"
          /\ UNCHANGED <<wifiConnected, logVars, attempts, ret>>
  /\ UNCHANGED <<millis, config, timeVars, dispVars, schedVars, statusVars, relayPin>>
  /\ UNCHANGED <<backendVars, prefs, envVars, obsVars>>

\* The condition of "Reboot if WiFi or API down for over 1 hour".
OfflineTooLongBoth(wifiAge, apiAge) == wifiAge > maxOfflineMillis /\ apiAge > maxOfflineMillis

OfflineTooLongWiFiOnly(wifiAge, apiAge) == wifiAge > maxOfflineMillis

OfflineTooLong(wifiAge, apiAge) == wifiAge > maxOfflineMillis \/ apiAge > maxOfflineMillis

\* loop(): the offline watchdog, up to its delay(1000).
LoopWatchdog ==
  /\ pc = "watchdog"
  /\ LET wifiAge == Elapsed(millis, lastGoodWiFiTime)
         apiAge == Elapsed(millis, lastGoodAPITime)
     IN /\ lastWatchdog' = [wifiAge |-> wifiAge, apiAge |-> apiAge,
                            restart |-> OfflineTooLong(wifiAge, apiAge)]
        /\ IF OfflineTooLong(wifiAge, apiAge)
           THEN /\ SetLog(addLog(CurLog, "Reboot: WiFi/API offline > 1hr"), lastLog)
                /\ pc' = "restart"
           ELSE /\ pc' = "display"
                /\ UNCHANGED logVars
  /\ UNCHANGED <<ret, millis, config, timeVars, dispVars, schedVars, statusVars, wifiConnected,
                 attempts, relayPin>>
  /\ UNCHANGED <<backendVars, prefs, envVars, pulses, lastPoll, schedDays, setupDone>>

\* loop(): the page shown after a switch of the display.
NextDisplayModeCatchUp(mode) ==
  (mode + Elapsed(millis, lastDisplaySwitch) \div displaySwitchInterval) % displayModeCount

NextDisplayMode(mode) == (mode + 1) % displayModeCount

\* loop(): the 300 ms render tick and the 5000 ms page switch.
LoopDisplay ==
  /\ pc = "display"
  /\ lastDisplayAnim' = IF Elapsed(millis, lastDisplayAnim) > displayAnimInterval
                        THEN millis ELSE lastDisplayAnim
  /\ IF Elapsed(millis, lastDisplaySwitch) > displaySwitchInterval
     THEN /\ displayMode' = NextDisplayMode(displayMode)
          /\ lastDisplaySwitch' = millis
     ELSE UNCHANGED <<displayMode, lastDisplaySwitch>>
  /\ pc' = "sched"
  /\ UNCHANGED <<ret, millis, config, timeVars, logVars, schedVars, statusVars, wifiConnected,
                 attempts, relayPin>>
  /\ UNCHANGED <<backendVars, prefs, envVars, obsVars>>

\* The per-day guard of the scheduled reboot: this iteration may restart.
SchedGuard(mday) == ~rebootedToday \/ mday # lastRebootDay

\* loop(): the local time is the configured reboot time, to the minute.
SchedMatchHourOnly == tm_hour(wall) = config.reboot_hour

SchedMatch == tm_hour(wall) = config.reboot_hour /\ tm_min(wall) = config.reboot_minute

\* loop(): rebootedToday when the restart branch has reached ESP.restart();
\* the assignment rebootedToday = true stands after that call, which does not return.
RebootedAtRestartSet == TRUE

RebootedAtRestart == rebootedToday

\* loop(): "Scheduled daily reboot", up to its delay(1000), else the closing delay(100).
LoopScheduledReboot ==
  /\ pc = "sched"
  /\ IF SchedMatch
     THEN IF SchedGuard(tm_mday(wall))
          THEN /\ Len(schedDays) < MaxSched
               /\ SetLog(addLog(CurLog, "Scheduled reboot at " \o ToString(config.reboot_hour)
                                          \o ":" \o ToString(config.reboot_minute)), lastLog)
               /\ schedDays' = Append(schedDays, tm_mday(wall))
               /\ pc' = "restart"
               /\ rebootedToday' = RebootedAtRestart
               /\ UNCHANGED <<millis, lastRebootDay>>
          ELSE /\ Advance(LoopDelay)
               /\ pc' = "loop_top"
               /\ UNCHANGED <<logVars, schedVars, schedDays>>
     ELSE /\ rebootedToday' = IF tm_mday(wall) # lastRebootDay THEN FALSE ELSE rebootedToday
          /\ Advance(LoopDelay)
          /\ pc' = "loop_top"
          /\ UNCHANGED <<logVars, lastRebootDay, schedDays>>
  /\ UNCHANGED <<ret, config, timeVars, dispVars, statusVars, wifiConnected, attempts, relayPin>>
  /\ UNCHANGED <<backendVars, prefs, envVars, pulses, lastPoll, lastWatchdog, setupDone>>

\* handleConfigPost() called by the web server with the form of a POST /config:
\* the fields, saveConfig(), the answer, delay(1500), ESP.restart().
ConfigPost ==
  /\ pc = "loop_top"
  /\ devReq # NoReq /\ devReq.method = "POST" /\ devReq.uri = "/config"
  /\ config' = handleConfigPost(config, devReq.args)
  /\ prefs' = saveConfig(prefs, config')
  /\ devResp' = [code |-> 200, type |-> "text/html",
                 body |-> [kind |-> "html",
                           text |-> "<html><body><h2>Config Saved! Rebooting...</h2></body></html>"]]
  /\ devReq' = NoReq
  /\ Advance(ConfigPostDelay)
  /\ pc' = "restart"
  /\ UNCHANGED <<ret, timeVars, dispVars, logVars, schedVars, statusVars, wifiConnected,
                 attempts, relayPin>>
  /\ UNCHANGED <<backendVars, linkUp, wall, horizon, loops, events, obsVars>>

\* The RAM as the firmware image initialises it.
RamAtBoot ==
  /\ pc' = "boot"
  /\ ret' = ""
  /\ millis' = 0
  /\ config' = ConfigInit
  /\ lastAPICheck' = 0
  /\ wifiConnected' = FALSE
  /\ lastStatus' = "Starting..."
  /\ lastLoggedStatus' = ""
  /\ lastLog' = ""
  /\ lastDisplayAnim' = 0
  /\ lastDisplaySwitch' = 0
  /\ displayMode' = 0
  /\ logBuffer' = EmptyBuffer
  /\ logIndex' = 0
  /\ logged' = <<>>
  /\ rebootedToday' = FALSE
  /\ lastRebootDay' = -1
  /\ lastGoodAPITime' = 0
  /\ lastGoodWiFiTime' = 0
  /\ attempts' = 0
  /\ relayPin' = FLOATING

\* delay(1000); ESP.restart(): it does not return; RAM, pins and the radio are
\* reset, flash and the RTC are kept.
DoRestart ==
  /\ pc = "restart"
  /\ RamAtBoot
  /\ linkUp' = FALSE
  /\ devReq' = NoReq
  /\ setupDone' = 0
  /\ UNCHANGED <<backendVars, prefs, wall, devResp, horizon, loops, events, pulses, lastPoll,
                 lastWatchdog, schedDays>>

(***************************************************************************)
(* The surroundings                                                        *)
(***************************************************************************)
\* The station loses its association.
LinkDown ==
  /\ linkUp /\ events < MaxEvents /\ pc \in WaitingPcs
  /\ linkUp' = FALSE
  /\ events' = events + 1
  /\ UNCHANGED <<backendVars, ramVars, prefs, wall, devReq, devResp, horizon, loops, obsVars>>

\* The turns of connectToWiFi()'s wait loop at which the link may come up.
AssocAt == {0, 3}

\* The station associates (WiFi.begin() has been called; the core reconnects by itself).
LinkUp ==
  /\ ~linkUp /\ pc \in WaitingPcs \ {"restart"}
  /\ pc = "connect" => attempts \in AssocAt
  /\ linkUp' = TRUE
  /\ UNCHANGED <<backendVars, ramVars, prefs, wall, devReq, devResp, horizon, loops, events, obsVars>>

\* A client's request reaches the device's web server.
RequestArrivesWithin(r, max) ==
  /\ devReq = NoReq /\ events < max
  /\ linkUp /\ pc \in WaitingPcs \cap ServingPcs
  /\ devReq' = r
  /\ events' = events + 1
  /\ UNCHANGED <<backendVars, ramVars, prefs, linkUp, wall, devResp, horizon, loops, obsVars>>

RequestArrives(r) == RequestArrivesWithin(r, MaxEvents)

(***************************************************************************)
(* Specifications                                                          *)
(***************************************************************************)
RamInit(p) ==
  /\ pc = p
  /\ ret = ""
  /\ millis = 0
  /\ config = ConfigInit
  /\ lastAPICheck = 0
  /\ wifiConnected = FALSE
  /\ lastStatus = "Starting..."
  /\ lastLoggedStatus = ""
  /\ lastLog = ""
  /\ lastDisplayAnim = 0
  /\ lastDisplaySwitch = 0
  /\ displayMode = 0
  /\ logBuffer = EmptyBuffer
  /\ logIndex = 0
  /\ logged = <<>>
  /\ rebootedToday = FALSE
  /\ lastRebootDay = -1
  /\ lastGoodAPITime = 0
  /\ lastGoodWiFiTime = 0
  /\ attempts = 0
  /\ relayPin = FLOATING

EnvInit(h, link) ==
  /\ isOn = FALSE
  /\ bhist = <<>>
  /\ linkUp = link
  /\ wall = 0
  /\ devReq = NoReq
  /\ devResp = NoResp
  /\ horizon = h
  /\ loops = 0
  /\ events = 0
  /\ pulses = 0
  /\ lastPoll = NoPoll
  /\ lastWatchdog = NoWatchdog
  /\ schedDays = <<>>
  /\ setupDone = 0

\* Nothing was ever stored in the Preferences namespace.
RestInit(h, link) == EnvInit(h, link) /\ prefs = NoPrefs

\* The backend alone, the device switched off.
BackendInit == RamInit("off") /\ RestInit(0, FALSE)

BackendNext == \E m \in Methods, u \in Urls : BackendRequest(m, u, MaxReqs)

BackendSpec == BackendInit /\ [][BackendNext]_vars

\* The device from power-on with the backend, over a short uptime: every loop
\* iteration spends 2400 or 4900 ms in ArduinoOTA.handle()/handleClient().
Stalls == {2400, 4900}
DeviceRequests == {[method |-> "GET", uri |-> "/on"], [method |-> "GET", uri |-> "/log"]}

Init == RamInit("boot") /\ RestInit(MaxLoops, FALSE)

DeviceStep ==
  \/ Setup
  \/ ConnectWait
  \/ ConnectDone
  \/ SetupEnd(TRUE)
  \/ \E d \in Stalls : LoopHandleClient(d, wall)
  \/ RelayRelease
  \/ LoopTrack
  \/ \E o \in PollOutcomes : PollResponse(o)
  \/ LoopWiFiCheck
  \/ LoopWatchdog
  \/ LoopDisplay
  \/ LoopScheduledReboot

Next ==
  \/ DeviceStep
  \/ LinkDown
  \/ LinkUp
  \/ \E r \in DeviceRequests : RequestArrives(r)
  \/ BackendRequest("GET", "/set/on", MaxEvents)

Spec == Init /\ [][Next]_vars

\* The device over hours: a loop iteration takes 100 ms, exactly an hour or
\* 100 ms more than an hour, the RTC passes 3:00 and 3:01 of the first day and
\* 3:00 of the second, the device restarts.
LongStalls == {0, 3599900, 3600000}
WallInstants == {10800, 10860, 97200}
LongOutcomes == {o \in PollOutcomes : o.kind \in {"ok", "refused", "garbled"}}

LongInit == RamInit("boot") /\ RestInit(MaxLoopsLong, FALSE)

LongNext ==
  \/ Setup
  \/ ConnectWait
  \/ ConnectDone
  \/ SetupEnd(TRUE)
  \/ \E d \in LongStalls, w \in WallInstants \cup {wall} : LoopHandleClient(d, w)
  \/ LoopTrack
  \/ \E o \in LongOutcomes : PollResponse(o)
  \/ LoopWiFiCheck
  \/ LoopWatchdog
  \/ LoopDisplay
  \/ LoopScheduledReboot
  \/ DoRestart
  \/ LinkDown
  \/ LinkUp

LongSpec == LongInit /\ [][LongNext]_vars

\* The flag service answers every poll.
LiveOutcomes == {o \in PollOutcomes : o.kind = "ok"}

\* The device booting on a Preferences namespace that holds nothing, some keys,
\* or what saveConfig() left there; the RTC passes the reboot times 3:00 and
\* 4:30; a client requests the configuration page or submits the form.
SavedConfigs ==
  {[wifi_ssid |-> "home", wifi_password |-> "pw", api_url |-> "http://flag.local/",
    static_ip |-> "10.0.0.5", gateway |-> "10.0.0.1", subnet |-> "255.0.0.0",
    dns1 |-> "1.1.1.1", dns2 |-> "9.9.9.9", reboot_hour |-> 4, reboot_minute |-> 30],
   [wifi_ssid |-> "home", wifi_password |-> "", api_url |-> "API_URL",
    static_ip |-> "", gateway |-> "", subnet |-> "",
    dns1 |-> "", dns2 |-> "", reboot_hour |-> 0, reboot_minute |-> 0],
   ConfigInit}

PartialStores ==
  {("apiurl" :> "http://other.local/"), ("ssid" :> "attic") @@ ("reboot_hour" :> 4)}

Stores ==
  {NoPrefs} \cup PartialStores
    \cup {saveConfig(st, c) : st \in {NoPrefs} \cup PartialStores, c \in SavedConfigs}

ConfigInstants == {10800, 16200}

ConfigRequests ==
  {[method |-> "GET", uri |-> "/config"],
   [method |-> "POST", uri |-> "/config",
    args |-> ("apiurl" :> "http://flag.local/") @@ ("ssid" :> "attic")]}

ConfigSpecInit == RamInit("boot") /\ EnvInit(MaxLoops, FALSE) /\ prefs \in Stores

ConfigNext ==
  \/ Setup
  \/ ConnectWait
  \/ ConnectDone
  \/ SetupEnd(TRUE)
  \/ \E d \in Stalls, w \in ConfigInstants \cup {wall} : LoopHandleClient(d, w)
  \/ LoopTrack
  \/ \E o \in LiveOutcomes : PollResponse(o)
  \/ LoopWiFiCheck
  \/ LoopWatchdog
  \/ LoopDisplay
  \/ LoopScheduledReboot
  \/ DoRestart
  \/ LinkUp
  \/ \E r \in ConfigRequests : RequestArrives(r)

ConfigSpec == ConfigSpecInit /\ [][ConfigNext]_vars

\* The event log over more log calls than the ring buffer has slots: a client
\* asks for a pulse (two entries each) or for the log page, loop after loop.
LogStalls == {4900}

LogInit == RamInit("boot") /\ RestInit(MaxLoopsLog, FALSE)

LogNext ==
  \/ Setup
  \/ ConnectWait
  \/ ConnectDone
  \/ SetupEnd(TRUE)
  \/ \E d \in LogStalls : LoopHandleClient(d, wall)
  \/ RelayRelease
  \/ LoopTrack
  \/ \E o \in LiveOutcomes : PollResponse(o)
  \/ LoopWiFiCheck
  \/ LoopWatchdog
  \/ LoopDisplay
  \/ LoopScheduledReboot
  \/ LinkUp
  \/ \E r \in DeviceRequests : RequestArrivesWithin(r, MaxLoopsLog)

LogSpec == LogInit /\ [][LogNext]_vars

\* The poll timer over several polls in a row: the station associates during the
\* boot-time connect or never, every poll is answered, refused or lost.
PollSpecOutcomes == {o \in PollOutcomes : o.kind \in {"ok", "lost", "refused"} \/ o.code = 500}

PollInit == RamInit("boot") /\ RestInit(MaxLoopsPoll, FALSE)

PollNext ==
  \/ Setup
  \/ ConnectWait
  \/ ConnectDone
  \/ SetupEnd(TRUE)
  \/ \E d \in Stalls : LoopHandleClient(d, wall)
  \/ LoopTrack
  \/ \E o \in PollSpecOutcomes : PollResponse(o)
  \/ LoopWiFiCheck
  \/ LoopWatchdog
  \/ LoopDisplay
  \/ LoopScheduledReboot
  \/ LinkUp

PollSpec == PollInit /\ [][PollNext]_vars

\* The device with the flag service answering every poll and a loop that is
\* always scheduled again; the station associates and stays associated.
LiveInit == RamInit("boot") /\ RestInit(MaxLoopsLive, FALSE)

LiveDevice ==
  \/ Setup
  \/ ConnectWait
  \/ ConnectDone
  \/ SetupEnd(TRUE)
  \/ \E d \in Stalls : LoopHandleClient(d, wall)
  \/ RelayRelease
  \/ LoopTrack
  \/ \E o \in LiveOutcomes : PollResponse(o)
  \/ LoopWiFiCheck
  \/ LoopWatchdog
  \/ LoopDisplay
  \/ LoopScheduledReboot

LiveNext ==
  \/ LiveDevice
  \/ LinkUp
  \/ BackendRequest("GET", "/set/on", MaxEvents)

LiveSpec == LiveInit /\ [][LiveNext]_vars /\ WF_vars(LiveDevice)

\* handleConfigPost() on its own: the device boots on a drawn Preferences
\* namespace, a POST /config arrives and the handler is called with its form
\* (setup() registers no route for it, so the web server of this firmware never
\* calls it; here it is applied as a function of the configuration and the
\* form). The two numeric fields are given character by character, as
\* toInt() reads them.
Forms ==
  {<<>>,
   ("apiurl" :> "http://new.local/") @@ ("ssid" :> "attic"),
   ("reboot_hour" :> <<"9", "9">>) @@ ("reboot_minute" :> <<"-", "1">>),
   ("reboot_hour" :> <<"a", "b">>) @@ ("wifipw" :> ""),
   ("reboot_minute" :> <<" ", "0", "7", "x">>) @@ ("dns1" :> "8.8.8.8")}

FormInit == RamInit("boot") /\ EnvInit(MaxLoops, FALSE) /\ prefs \in Stores

FormNext ==
  \/ Setup
  \/ ConnectWait
  \/ ConnectDone
  \/ SetupEnd(TRUE)
  \/ ConfigPost
  \/ DoRestart
  \/ LinkUp
  \/ \E f \in Forms : RequestArrives([method |-> "POST", uri |-> "/config", args |-> f])

FormSpec == FormInit /\ [][FormNext]_vars

\* One device polling the flag service while clients set the flag and other
\* clients read it: every loop iteration lasts a poll interval, a poll is
\* answered, answered with the response lost on the way, or refused; nobody
\* asks the device itself for a pulse.
FlagOutcomes == {o \in PollOutcomes : o.kind \in {"ok", "lost", "refused"}}

FlagInit == RamInit("boot") /\ RestInit(MaxLoopsPoll, FALSE)

FlagNext ==
  \/ Setup
  \/ ConnectWait
  \/ ConnectDone
  \/ SetupEnd(TRUE)
  \/ \E d \in LogStalls : LoopHandleClient(d, wall)
  \/ RelayRelease
  \/ LoopTrack
  \/ \E o \in FlagOutcomes : PollResponse(o)
  \/ LoopWiFiCheck
  \/ LoopWatchdog
  \/ LoopDisplay
  \/ LoopScheduledReboot
  \/ LinkUp
  \/ \E u \in {"/set/on", "/"} : BackendRequest("GET", u, MaxReqs)

FlagSpec == FlagInit /\ [][FlagNext]_vars

\* The timers across the wrap of millis(): the device has been up for a little
\* less than 2^32 ms (49.7 days) with a stored reboot hour that no clock time
\* matches, connected all the time and polling a flag that was never set, so
\* that its log holds the entries of setup() and of the first poll; it is at the
\* top of loop(), WrapLeads ms before the counter wraps, its last poll WrapAges
\* ms back. An iteration then takes 100 ms, 5000 ms or an hour and the RTC runs
\* along; a poll is answered (by the flag service or something else) or refused.
WrapLeads == {40, 4000, 3599000}
WrapAges == {100, 4950}
WrapStalls == {0, 4900, 3600000}
MaxLoopsWrap == 3

WrapLog ==
  [buf |-> [i \in 0..(LOG_SIZE - 1) |->
              IF i = 0 THEN "[00:00:00] Initializing... | "
              ELSE IF i = 1 THEN "[00:00:00] Connecting WiFi | WIFI_SSID"
              ELSE IF i = 2 THEN "[00:00:00] " \o DisplayLine("WiFi Connected", LocalIP)
              ELSE IF i = 3 THEN "[00:00:00] " \o DisplayLine("mDNS Ready", "remote.local")
              ELSE IF i = 4 THEN "[00:00:00] " \o DisplayLine("Server Ready", "IP: " \o LocalIP)
              ELSE IF i = 5 THEN "[00:00:05] " \o StatusLine("API: OFF")
              ELSE ""],
   idx |-> 6,
   hist |-> <<>>]

WrapInit ==
  \E lead \in WrapLeads, age \in WrapAges :
    /\ prefs = ("reboot_hour" :> 24)
    /\ linkUp = TRUE
    /\ wall = 4294967 - (lead \div 1000)
    /\ pc = "loop_top" /\ ret = ""
    /\ millis = 0 - lead
    /\ config = loadConfig(prefs)
    /\ lastAPICheck = millis - age
    /\ lastGoodAPITime = millis - age
    /\ lastGoodWiFiTime = millis - 100
    /\ wifiConnected = TRUE
    /\ lastStatus = "API: OFF" /\ lastLoggedStatus = "API: OFF"
    /\ lastLog = StatusLine("API: OFF")
    /\ lastDisplayAnim = millis - 100
    /\ lastDisplaySwitch = millis - age
    /\ displayMode \in 0..(displayModeCount - 1)
    /\ logBuffer = WrapLog.buf /\ logIndex = WrapLog.idx /\ logged = WrapLog.hist
    /\ rebootedToday = FALSE /\ lastRebootDay = -1
    /\ attempts = 0
    /\ relayPin = HIGH
    /\ isOn = FALSE /\ bhist = <<>>
    /\ devReq = NoReq /\ devResp = NoResp
    /\ horizon = MaxLoopsWrap /\ loops = 0 /\ events = 0
    /\ pulses = 0 /\ lastPoll = NoPoll /\ lastWatchdog = NoWatchdog
    /\ schedDays = <<>> /\ setupDone = 0

WrapNext ==
  \/ \E d \in WrapStalls : LoopHandleClient(d, wall + 60 * (d \div 60000))
  \/ LoopTrack
  \/ \E o \in LongOutcomes : PollResponse(o)
  \/ LoopWiFiCheck
  \/ LoopWatchdog
  \/ LoopDisplay
  \/ LoopScheduledReboot

WrapSpec == WrapInit /\ [][WrapNext]_vars

\* The display timers: a loop iteration takes 300 ms, 5000 ms or an hour, the
\* RTC runs along with the stalls, the station stays associated and the flag
\* service answers every poll.
DisplayStalls == {200, 4900, 3600000}

DisplayInit == RamInit("boot") /\ RestInit(MaxLoopsLong, FALSE)

DisplayNext ==
  \/ Setup
  \/ ConnectWait
  \/ ConnectDone
  \/ SetupEnd(TRUE)
  \/ \E d \in DisplayStalls : LoopHandleClient(d, wall + 60 * (d \div 60000))
  \/ LoopTrack
  \/ \E o \in LiveOutcomes : PollResponse(o)
  \/ LoopWiFiCheck
  \/ LoopWatchdog
  \/ LoopDisplay
  \/ LoopScheduledReboot
  \/ LinkUp

DisplaySpec == DisplayInit /\ [][DisplayNext]_vars

\* The device with a loop that is always scheduled again: the firmware is the
\* only task of the core, so an enabled step of it is eventually taken, while
\* the link drops and returns as it likes and a client asks for a pulse; a poll
\* is answered, or refused within the connect timeout.
DropDevice ==
  \/ Setup
  \/ ConnectWait
  \/ ConnectDone
  \/ SetupEnd(TRUE)
  \/ \E d \in LogStalls : LoopHandleClient(d, wall)
  \/ RelayRelease
  \/ LoopTrack
  \/ \E o \in LongOutcomes : PollResponse(o)
  \/ LoopWiFiCheck
  \/ LoopWatchdog
  \/ LoopDisplay
  \/ LoopScheduledReboot

DropNext ==
  \/ DropDevice
  \/ LinkDown
  \/ LinkUp
  \/ RequestArrives([method |-> "GET", uri |-> "/on"])

DropSpec == Init /\ [][DropNext]_vars /\ WF_vars(DropDevice)

(***************************************************************************)
(* Claims                                                                  *)
(***************************************************************************)
IsRead(e) == e.method = "GET" /\ e.url = "/"
IsSet(e) == e.method = "GET" /\ e.url = "/set/on"

\* C1: every GET / answers 200 with {on: v}, v the flag's value when the
\* request is handled, and leaves the flag false; the flag then stays false
\* through every later exchange until a GET /set/on is handled.
C1_ReadReturnsAndClears ==
  \A i \in 1..Len(bhist) :
    /\ bhist[i].before = (IF i = 1 THEN FALSE ELSE bhist[i-1].after)
    /\ IsRead(bhist[i]) =>
         /\ bhist[i].code = 200
         /\ bhist[i].body = (IF bhist[i].before THEN "{\"on\":true}" ELSE "{\"on\":false}")
         /\ bhist[i].after = FALSE
         /\ \A j \in (i+1)..Len(bhist) :
              (\A k \in (i+1)..j : ~IsSet(bhist[k])) => bhist[j].after = FALSE
    /\ (i = Len(bhist)) => isOn = bhist[i].after

\* A read of a set flag has been answered and a later exchange follows it.
C1_Witness ==
  \E i \in 1..Len(bhist) :
    /\ IsRead(bhist[i]) /\ bhist[i].before = TRUE
    /\ i + 1 < Len(bhist)
    /\ ~IsSet(bhist[i+1])

\* C2: after n >= 1 GET /set/on with no GET / in between, the first following
\* GET / returns {on: true} and a GET / immediately after it {on: false}.
C2_SetIdempotent ==
  \A i \in 1..Len(bhist) :
    IsRead(bhist[i]) =>
      LET sets == {k \in 1..(i-1) : IsSet(bhist[k]) /\ \A j \in (k+1)..(i-1) : ~IsRead(bhist[j])}
      IN /\ (sets # {}) => bhist[i].body = "{\"on\":true}"
         /\ (i > 1 /\ IsRead(bhist[i-1])) => bhist[i].body = "{\"on\":false}"

\* Two sets in a row, then two reads in a row.
C2_Witness ==
  /\ Len(bhist) >= 4
  /\ IsSet(bhist[1]) /\ IsSet(bhist[2]) /\ IsRead(bhist[3]) /\ IsRead(bhist[4])

C4_PollClassified ==
  LET code == lastPoll.code
      parses == lastPoll.payload \in {"{\"on\":true}", "{\"on\":false}", "{\"error\":\"Not Found\"}"}
      on == lastPoll.payload = "{\"on\":true}"
  IN /\ (lastPoll.sent /\ lastPoll.done) =>
          /\ lastPoll.status =
               (IF code = 200 /\ parses /\ on THEN "API Triggered ON"
                ELSE IF code = 200 /\ parses THEN "API: OFF"
                ELSE IF code = 200 THEN "API Parse Error"
                ELSE IF code > 0 THEN "API Error: " \o ToString(code)
                ELSE "API Offline")
          /\ lastStatus = lastPoll.status
          /\ lastPoll.triggered <=> (code = 200 /\ parses /\ on)
     /\ (pc = "relay" /\ ret = "poll") => (lastPoll.sent /\ code = 200 /\ parses /\ on)

\* A poll has triggered the relay and ended.
C4_Witness ==
  /\ lastPoll.sent /\ lastPoll.done /\ lastPoll.triggered
  /\ lastStatus = "API Triggered ON" /\ pulses >= 1

\* C5: while a trigger is in progress the pin is LOW; the trigger ends 1000 ms
\* after it began with the pin HIGH; from the pin initialisation of setup() on
\* the pin is HIGH whenever no trigger is in progress.
C5_RelayPulse ==
  /\ [](pc = "relay" => relayPin = 0)
  /\ [](pc \notin {"off", "boot", "relay"} => relayPin = 1)
  /\ [][(pc # "relay" /\ pc' = "relay") => relayPin' = 0]_vars
  /\ [][(pc = "relay" /\ pc' # "relay") => relayPin' = 1 /\ millis' = millis + 1000]_vars

\* A trigger has ended and the pin is HIGH again.
C5_Witness == pulses >= 1 /\ pc # "relay" /\ relayPin = 1

\* C6: a GET /on taken up by the device leads to a trigger whatever the Wi-Fi
\* flag, the last status and the time since the previous pulse are, and the
\* step that answers it makes exactly one pulse, leaves the manual-trigger
\* entry last in the log and answers 200 with the JSON success body.
C6_PowerOnPulse ==
  [][/\ (pc = "loop_top" /\ pc' # pc /\ devReq = [method |-> "GET", uri |-> "/on"]) =>
          (pc' = "relay" /\ ret' = "on" /\ relayPin' = 0 /\ devReq' = devReq)
     /\ (devReq = [method |-> "GET", uri |-> "/on"] /\ devReq' # devReq) =>
          /\ pc = "relay" /\ ret = "on"
          /\ pulses' = pulses + 1
          /\ relayPin' = 1
          /\ devResp'.code = 200 /\ devResp'.type = "application/json"
          /\ devResp'.body.kind = "json" /\ devResp'.body.status = "success"
          /\ logBuffer'[(logIndex' + 19) % 20] = "[" \o getTimeString \o "] Manual Power ON via /on"
          /\ logBuffer'[(logIndex' + 18) % 20]
               = "[" \o getTimeString \o "] PC POWER ON! | Signal Sent"]_vars

\* Two GET /on answered, one pulse each, the Wi-Fi flag false throughout and
\* no poll ever made.
C6_Witness ==
  /\ pulses = 2 /\ devResp.code = 200 /\ devResp.body.kind = "json"
  /\ ~wifiConnected /\ lastStatus = "Starting..."

\* C7: at the watchdog step, a Wi-Fi timestamp older than 3600000 ms or an API
\* timestamp older than 3600000 ms, either one alone, makes the device log the
\* offline-reboot entry and restart; the restart clears the RAM.
C7_WatchdogRestarts ==
  [][/\ (pc = "watchdog" /\ pc' # pc
          /\ (millis - lastGoodWiFiTime > 3600000 \/ millis - lastGoodAPITime > 3600000)) =>
          /\ pc' = "restart"
          /\ logBuffer'[logIndex] = "[" \o getTimeString \o "] Reboot: WiFi/API offline > 1hr"
          /\ logIndex' = (logIndex + 1) % 20
     /\ (pc = "restart" /\ pc' # pc) =>
          (pc' = "boot" /\ millis' = 0 /\ ~wifiConnected' /\ lastGoodAPITime' = 0
           /\ lastGoodWiFiTime' = 0)]_vars

\* The watchdog restarts the device on the API age alone, the Wi-Fi age being zero.
C7_Witness ==
  /\ pc = "restart" /\ lastWatchdog.restart
  /\ lastWatchdog.wifiAge = 0 /\ lastWatchdog.apiAge > 3600000

\* C8 as stated: the watchdog restarts the device exactly when both the Wi-Fi
\* age and the API age exceed the threshold.
C8_RestartIffBoth ==
  lastWatchdog.restart <=> (lastWatchdog.wifiAge > 3600000 /\ lastWatchdog.apiAge > 3600000)

\* C8: the watchdog restarts the device exactly when at least one of the Wi-Fi
\* age and the API age, both taken on the uptime counter, exceeds 3600000 ms,
\* whatever the RTC reads.
C8_RestartIffEither ==
  /\ lastWatchdog.restart <=> (lastWatchdog.wifiAge > 3600000 \/ lastWatchdog.apiAge > 3600000)
  /\ pc = "display" =>
       /\ ~lastWatchdog.restart
       /\ lastWatchdog.wifiAge = millis - lastGoodWiFiTime
       /\ lastWatchdog.apiAge = millis - lastGoodAPITime

\* The watchdog restarts the device with only one age over the threshold, the
\* RTC reading a later day than the uptime accounts for.
C8_Witness ==
  /\ pc = "restart" /\ lastWatchdog.restart
  /\ lastWatchdog.wifiAge > 3600000 /\ lastWatchdog.apiAge <= 3600000
  /\ wall = 97200 /\ millis < 10000000

\* C9: no two scheduled restarts fall on the same calendar day, restarts of
\* the device included.
C9_OncePerDay ==
  \A i, j \in 1..Len(schedDays) : i < j => schedDays[i] # schedDays[j]

\* C10: a poll's GET is issued only when the station is associated at that moment.
C10_PollOnlyWhenLinkUp == lastPoll.sent => lastPoll.link

\* C11: checkAPI() is called in a loop iteration exactly when 5000 ms or more
\* have passed on the uptime counter since the previous call returned, whatever
\* the number of failed polls before it; lastAPICheck is the time the previous
\* call returned; a request is under way only 5000 ms or more after that.
C11_FixedInterval ==
  /\ [](pc = "http" => millis - lastAPICheck >= 5000)
  /\ [][/\ (pc = "track" /\ pc' # pc) =>
             ((millis - lastAPICheck >= 5000)
                <=> (pc' = "http" \/ (lastAPICheck' = millis /\ lastAPICheck' # lastAPICheck)))
        /\ (lastAPICheck' # lastAPICheck) =>
             (lastAPICheck' = millis' /\ pc \in {"track", "http", "relay"})
        /\ (pc = "http" /\ pc' \notin {"http", "relay"}) => lastAPICheck' = millis'
        /\ (pc = "relay" /\ ret = "poll" /\ pc' # pc) => lastAPICheck' = millis']_vars

\* The third poll in a row after two failed ones, exactly 5000 ms after the second returned.
C11_Witness ==
  /\ pc = "http" /\ lastPoll.sent /\ lastPoll.fails = 2
  /\ millis - lastAPICheck = 5000

\* C12: a poll's GET goes to the flag-service URL of the configuration: the
\* value stored under "apiurl" when there is one, the compiled-in default otherwise.
C12_PollsConfiguredUrl ==
  lastPoll.sent =>
    lastPoll.url = (IF "apiurl" \in DOMAIN prefs THEN prefs["apiurl"] ELSE "API_URL")

\* C13: a POST /config taken up by the running device is answered 200, leaves
\* every submitted field in the persistent store and is followed by a restart.
C13_ConfigPostPersists ==
  [][(pc = "loop_top" /\ devReq.method = "POST" /\ devReq.uri = "/config" /\ devReq' # devReq) =>
       /\ devResp'.code = 200
       /\ \A k \in DOMAIN devReq.args : k \in DOMAIN prefs' /\ prefs'[k] = devReq.args[k]
       /\ pc' = "restart"]_vars

\* C18: once setup() has loaded the configuration, every field holds the value
\* stored under its key in the Preferences namespace, or the compiled-in
\* default when the key is absent; on a namespace written by saveConfig() the
\* loaded configuration is the saved one, field for field, after a restart too.
C18_LoadMatchesStore ==
  pc \notin {"off", "boot"} =>
    /\ config.wifi_ssid = (IF "ssid" \in DOMAIN prefs THEN prefs["ssid"] ELSE "WIFI_SSID")
    /\ config.wifi_password = (IF "wifipw" \in DOMAIN prefs THEN prefs["wifipw"] ELSE "WIFI_PASSWORD")
    /\ config.api_url = (IF "apiurl" \in DOMAIN prefs THEN prefs["apiurl"] ELSE "API_URL")
    /\ config.static_ip = (IF "staticip" \in DOMAIN prefs THEN prefs["staticip"] ELSE "STATIC_IP")
    /\ config.gateway = (IF "gateway" \in DOMAIN prefs THEN prefs["gateway"] ELSE "GATEWAY")
    /\ config.subnet = (IF "subnet" \in DOMAIN prefs THEN prefs["subnet"] ELSE "SUBNET")
    /\ config.dns1 = (IF "dns1" \in DOMAIN prefs THEN prefs["dns1"] ELSE "DNS1")
    /\ config.dns2 = (IF "dns2" \in DOMAIN prefs THEN prefs["dns2"] ELSE "DNS2")
    /\ config.reboot_hour = (IF "reboot_hour" \in DOMAIN prefs THEN prefs["reboot_hour"] ELSE 3)
    /\ config.reboot_minute = (IF "reboot_minute" \in DOMAIN prefs THEN prefs["reboot_minute"] ELSE 0)
    /\ \A st \in {NoPrefs} \cup PartialStores, c \in SavedConfigs :
         prefs = saveConfig(st, c) => config = c

\* The device has restarted at the stored reboot time 4:30 and runs again on
\* the configuration saveConfig() had stored.
C18_Witness ==
  /\ pc = "loop_top" /\ schedDays = <<1>>
  /\ \E c \in SavedConfigs : c.reboot_hour = 4 /\ prefs = saveConfig(NoPrefs, c) /\ config = c
  /\ config.api_url = "http://flag.local/" /\ config.reboot_minute = 30

\* C14: the write cursor is in 0..19 and the buffer has the 20 slots 0..19;
\* after n log calls since boot the buffer holds exactly the last min(n, 20)
\* entries logged, the k-th newest k slots behind the cursor, and nothing else;
\* after 21 calls the first entry logged is in no slot and the 21st is.
C14_RingHoldsLast20 ==
  LET n == Len(logged)
      held == IF n < 20 THEN n ELSE 20
  IN /\ logIndex \in 0..19
     /\ DOMAIN logBuffer = 0..19
     /\ logIndex = n % 20
     /\ \A k \in 1..held : logBuffer[(logIndex + 20 - k) % 20] = logged[n + 1 - k]
     /\ \A k \in (held + 1)..20 : logBuffer[(logIndex + 20 - k) % 20] = ""
     /\ \A i \in 1..n : logged[i] # ""
     /\ n = 21 => /\ \A i \in 0..19 : logBuffer[i] # logged[1]
                  /\ \E i \in 0..19 : logBuffer[i] = logged[21]

\* 21 entries have been logged since boot.
C14_Witness == Len(logged) = 21 /\ logBuffer[0] = logged[21] /\ logIndex = 1

\* C15: the answer to a GET /log lists the entries held in the ring buffer,
\* which are the last min(n, 20) of the n logged since boot, in the order in
\* which they were logged, each once, whether n is below, at or above 20.
C15_LogPageOldestFirst ==
  [][(pc = "loop_top" /\ devReq = [method |-> "GET", uri |-> "/log"] /\ devReq' # devReq) =>
       /\ devResp'.code = 200 /\ devResp'.body.kind = "log"
       /\ devResp'.body.entries
            = [i \in 1..(IF Len(logged) < 20 THEN Len(logged) ELSE 20) |->
                 logged[Len(logged) - (IF Len(logged) < 20 THEN Len(logged) ELSE 20) + i]]]_vars

\* A log page answered after the buffer wrapped: 20 entries, the oldest held first.
C15_Witness ==
  /\ devResp.body.kind = "log" /\ Len(logged) = 22
  /\ Len(devResp.body.entries) = 20
  /\ devResp.body.entries[1] = logged[3] /\ devResp.body.entries[20] = logged[22]

\* C16: a backend GET whose URL is neither "/" nor "/set/on" is answered 404
\* with {"error":"Not Found"} and leaves the flag as it was; between a GET
\* /set/on and a GET / it does not keep the GET / from returning {"on":true}.
C16_NotFoundKeepsFlag ==
  \A i \in 1..Len(bhist) :
    (bhist[i].method = "GET" /\ bhist[i].url \notin {"/", "/set/on"}) =>
      /\ bhist[i].code = 404
      /\ bhist[i].body = "{\"error\":\"Not Found\"}"
      /\ bhist[i].after = bhist[i].before
      /\ (i > 1 /\ i < Len(bhist) /\ IsSet(bhist[i-1]) /\ IsRead(bhist[i+1])) =>
           (bhist[i+1].code = 200 /\ bhist[i+1].body = "{\"on\":true}")

\* GET /set/on, GET /on/off-path, GET / have been handled in this order.
C16_Witness ==
  /\ Len(bhist) >= 3
  /\ IsSet(bhist[1]) /\ bhist[2].method = "GET" /\ bhist[2].url = "/on/off-path"
  /\ IsRead(bhist[3]) /\ bhist[3].body = "{\"on\":true}"

\* C17: a backend request whose method is not GET is answered 405 with
\* {"error":"Method Not Allowed"} on every path and leaves the flag as it was:
\* a set flag stays set, an unset flag stays unset.
C17_NonGetRejected ==
  \A i \in 1..Len(bhist) :
    bhist[i].method # "GET" =>
      /\ bhist[i].code = 405
      /\ bhist[i].body = "{\"error\":\"Method Not Allowed\"}"
      /\ bhist[i].after = bhist[i].before
      /\ (i = Len(bhist)) => isOn = bhist[i].before

\* A POST /set/on on an unset flag and a POST / on a set flag have been handled.
C17_Witness ==
  /\ Len(bhist) >= 3
  /\ bhist[1].method = "POST" /\ bhist[1].url = "/set/on" /\ ~bhist[1].after
  /\ IsSet(bhist[2])
  /\ bhist[3].method = "POST" /\ bhist[3].url = "/" /\ bhist[3].after

\* C19: once a Wi-Fi drop has been noticed, every later loop iteration that
\* finds the link down starts a connect sequence, and every later iteration in
\* which the link is up and the poll interval has passed issues a poll.
C19_DropRetried ==
  [][(\E i \in 1..Len(logged) : logged[i] = "[00:00:00] WiFi Lost | Reconnecting...") =>
       /\ (pc = "wifi_check" /\ ~linkUp /\ pc' # pc) => pc' = "connect"
       /\ (pc = "track" /\ linkUp /\ millis - lastAPICheck >= 5000 /\ pc' # pc) =>
            pc' = "http"]_vars

\* C20: a poll that comes back without a response (code <= 0) sets the status
\* 'API Offline', leaves the relay pin HIGH and the pulse count as they were,
\* leaves lastGoodAPITime unchanged and goes on with the loop iteration, not
\* to a restart; the next poll is issued when 5000 ms have passed since it returned.
C20_OfflinePollNotFatal ==
  /\ []((lastPoll.sent /\ lastPoll.done /\ lastPoll.code <= 0) => pc \notin {"restart", "boot"})
  /\ [][/\ (pc = "http" /\ pc' # pc /\ lastPoll'.code <= 0) =>
             /\ lastStatus' = "API Offline" /\ lastPoll'.status = "API Offline"
             /\ pc' = "wifi_check"
             /\ relayPin = 1 /\ relayPin' = 1 /\ pulses' = pulses
             /\ lastGoodAPITime' = lastGoodAPITime
             /\ lastAPICheck' = millis'
        /\ (pc = "track" /\ pc' # pc /\ wifiConnected
              /\ lastPoll.sent /\ lastPoll.done /\ lastPoll.code <= 0) =>
             ((pc' = "http") <=> (millis - lastAPICheck >= 5000))]_vars

\* The next poll is under way exactly 5000 ms after one that timed out.
C20_Witness ==
  /\ pc = "http" /\ lastPoll.sent /\ ~lastPoll.done /\ lastPoll.fails = 1
  /\ lastStatus = "API Offline" /\ millis - lastAPICheck = 5000
  /\ lastGoodAPITime < lastAPICheck

\* C21: a loop iteration that finds the link down with the connected flag set
\* clears the flag, logs the loss and runs one connect sequence that ends in
\* the same iteration; any other iteration logs nothing at the Wi-Fi check and
\* starts no connect sequence, so a drop is logged once.
C21_DropLoggedOnce ==
  [][/\ (pc = "wifi_check" /\ pc' # pc /\ ~linkUp /\ wifiConnected) =>
          /\ ~wifiConnected' /\ pc' = "connect" /\ attempts' = 0
          /\ logged' = logged \o <<"[" \o getTimeString \o "] WiFi Lost | Reconnecting...",
                                   "[" \o getTimeString \o "] Connecting WiFi | "
                                      \o config.wifi_ssid>>
     /\ (pc = "wifi_check" /\ pc' # pc /\ ~(~linkUp /\ wifiConnected)) =>
          (pc' = "watchdog" /\ logged' = logged /\ wifiConnected' = wifiConnected)
     /\ (pc = "connect" /\ ret = "loop" /\ pc' # pc) => (pc' = "watchdog" /\ loops' = loops)
     /\ (pc = "connect" /\ pc' = pc) => (attempts' = attempts + 1 \/ attempts' = attempts)
     /\ (\E i \in 1..Len(logged') :
           i > Len(logged) /\ logged'[i] = "[" \o getTimeString \o "] WiFi Lost | Reconnecting...")
          => (pc = "wifi_check" /\ ~linkUp /\ wifiConnected)]_vars

\* The drop was logged once, its connect sequence failed, and the next
\* iteration passed the Wi-Fi check with the link still down.
C21_Witness ==
  /\ pc = "watchdog" /\ ~linkUp /\ ~wifiConnected /\ loops = 2
  /\ lastPoll.done /\ ~lastPoll.sent /\ ~lastPoll.link
  /\ Cardinality({i \in 1..Len(logged) : logged[i] = "[00:00:00] WiFi Lost | Reconnecting..."}) = 1
\* C22: a connect sequence starts with zero turns, waits 500 ms per turn and only
\* while the link is down, never more than 20 turns, and is left only with the
\* link up or after the 20th turn, with the connected flag equal to the link
\* state at that moment; under a scheduled loop every connect sequence ends and
\* every started loop iteration reaches its end (or a restart).
C22_ConnectTerminates ==
  /\ [][/\ (pc # "connect" /\ pc' = "connect") => attempts' = 0
        /\ pc' = "connect" => attempts' \in 0..20
        /\ (pc = "connect" /\ pc' = "connect" /\ attempts' # attempts) =>
             (~linkUp /\ attempts' = attempts + 1 /\ millis' = millis + 500)
        /\ (pc = "connect" /\ pc' = "connect" /\ attempts' = attempts) => millis' = millis
        /\ (pc = "connect" /\ pc' # "connect") =>
             /\ linkUp \/ attempts = 20
             /\ wifiConnected' = linkUp
             /\ millis' = millis
             /\ pc' = IF ret = "setup" THEN "setup_end" ELSE "watchdog"]_vars
  /\ (pc = "connect") ~> (pc # "connect")
  /\ (pc \in {"relay", "track", "http", "wifi_check", "connect", "watchdog", "display", "sched"})
       ~> (pc \in {"loop_top", "restart"})

\* A connect sequence started by a drop has run its 20 turns without a link and
\* the iteration has gone on to the display duty.
C22_Witness ==
  /\ pc = "display" /\ ~linkUp /\ ~wifiConnected /\ attempts = 20 /\ loops >= 1
  /\ \E i \in 1..Len(logged) : logged[i] = "[00:00:00] WiFi Lost | Reconnecting..."
  /\ logged[Len(logged)] = "[00:00:00] WiFi Failed | Check credentials"
\* The log entry addLog() makes of a message at the present wall time.
Stamped(msg) == "[" \o getTimeString \o "] " \o msg

\* C23 (as the code has it): a poll that does not trigger the relay appends the
\* status line when its status differs from the preceding poll's and nothing
\* otherwise; a poll that triggers the relay appends the pulse entry every time,
\* and after it the status line only when the preceding status was another one.
C23_StatusLoggedOnChange ==
  [][/\ (pc = "http" /\ pc' = "relay") => logged' = logged
     /\ (pc = "http" /\ pc' = "wifi_check") =>
          logged' = logged \o (IF lastStatus' = lastStatus THEN <<>>
                               ELSE <<Stamped(StatusLine(lastStatus'))>>)
     /\ (pc = "relay" /\ ret = "poll" /\ pc' = "wifi_check") =>
          /\ lastStatus' = "API Triggered ON"
          /\ logged' = logged \o <<Stamped("PC POWER ON! | Signal Sent")>>
                              \o (IF lastStatus = "API Triggered ON" THEN <<>>
                                  ELSE <<Stamped(StatusLine("API Triggered ON"))>>)]_vars

\* Two polls in a row have triggered the relay: two pulse entries, one status line.
C23_Witness ==
  /\ pc = "wifi_check" /\ lastPoll.done /\ lastPoll.triggered /\ pulses = 2
  /\ Cardinality({i \in 1..Len(logged) : logged[i] = Stamped("PC POWER ON! | Signal Sent")}) = 2
  /\ Cardinality({i \in 1..Len(logged) : logged[i] = Stamped(StatusLine("API Triggered ON"))}) = 1
  /\ Cardinality({i \in 1..Len(logged) : logged[i] = Stamped(StatusLine("API: OFF"))}) = 0

\* C23 as stated: a poll that ends with the status of the preceding poll leaves
\* the log as it was.
C23_SameStatusNoEntry ==
  [][/\ (pc = "http" /\ pc' = "wifi_check" /\ lastStatus' = lastStatus) => logged' = logged
     /\ (pc = "relay" /\ ret = "poll" /\ pc' = "wifi_check" /\ lastStatus' = lastStatus) =>
          logged' = logged]_vars
\* C24: a loop iteration that reaches the scheduled-reboot block at the
\* configured hour and minute on a day without a scheduled restart so far logs
\* "Scheduled reboot at h:m" and restarts the device (RAM reset, uptime 0); an
\* iteration at any other hour:minute goes on to the next iteration, and a
\* scheduled restart is recorded only at the configured hour and minute.
C24_ScheduledReboot ==
  [][/\ (/\ pc = "sched" /\ pc' # pc
         /\ tm_hour(wall) = config.reboot_hour /\ tm_min(wall) = config.reboot_minute
         /\ \A i \in 1..Len(schedDays) : schedDays[i] # tm_mday(wall)) =>
          /\ pc' = "restart"
          /\ logged' = Append(logged, Stamped("Scheduled reboot at "
                                 \o ToString(config.reboot_hour) \o ":"
                                 \o ToString(config.reboot_minute)))
          /\ schedDays' = Append(schedDays, tm_mday(wall))
     /\ (/\ pc = "sched" /\ pc' # pc
         /\ ~(tm_hour(wall) = config.reboot_hour /\ tm_min(wall) = config.reboot_minute)) =>
          (pc' = "loop_top" /\ schedDays' = schedDays /\ logged' = logged)
     /\ schedDays' # schedDays =>
          (/\ pc = "sched"
           /\ tm_hour(wall) = config.reboot_hour /\ tm_min(wall) = config.reboot_minute)
     /\ (pc = "restart" /\ pc' # pc) => (pc' = "boot" /\ millis' = 0 /\ ~wifiConnected')]_vars

\* The device has been restarted by the schedule at 03:00 of the second day.
C24_Witness ==
  /\ pc = "boot" /\ millis = 0 /\ wall = 97200
  /\ schedDays = <<2>> /\ lastWatchdog = NoWatchdog
\* C25: the display cursor is 0, 1 or 2; the display block of a loop iteration
\* steps it to the next page (0 -> 1 -> 2 -> 0) exactly when more than 5000 ms
\* have passed since the previous step, however long the stall before it, and
\* leaves it alone otherwise, whether or not the 300 ms render tick fires; no
\* other step of an uptime changes it (a restart starts again at page 0).
C25_DisplayRoundRobin ==
  /\ [](displayMode \in {0, 1, 2})
  /\ [][IF pc = "display" /\ pc' # pc
        THEN /\ pc' = "sched"
             /\ IF millis - lastDisplaySwitch > 5000
                THEN /\ displayMode' = (IF displayMode = 2 THEN 0 ELSE displayMode + 1)
                     /\ lastDisplaySwitch' = millis
                ELSE /\ displayMode' = displayMode
                     /\ lastDisplaySwitch' = lastDisplaySwitch
             /\ lastDisplayAnim' = (IF millis - lastDisplayAnim > 300 THEN millis
                                    ELSE lastDisplayAnim)
        ELSE IF pc = "restart" /\ pc' = "boot"
             THEN displayMode' = 0 /\ lastDisplaySwitch' = 0
             ELSE displayMode' = displayMode /\ lastDisplaySwitch' = lastDisplaySwitch]_vars

\* After three stalls of an hour the cursor has gone round once, page by page.
C25_Witness ==
  /\ pc = "sched" /\ displayMode = 0 /\ lastDisplaySwitch = millis
  /\ millis > 3 * 3600000 /\ loops = 3
\* The form keys of the eight text fields with the Config fields they set, and
\* the integers the submitted numeric texts stand for.
C26_TextFields ==
  {<<"ssid", "wifi_ssid">>, <<"wifipw", "wifi_password">>, <<"apiurl", "api_url">>,
   <<"staticip", "static_ip">>, <<"gateway", "gateway">>, <<"subnet", "subnet">>,
   <<"dns1", "dns1">>, <<"dns2", "dns2">>}

C26_NumberFields == {"reboot_hour", "reboot_minute"}

C26_Value ==
  (<<"9", "9">> :> 99) @@ (<<"-", "1">> :> -1) @@ (<<"a", "b">> :> 0)
    @@ (<<" ", "0", "7", "x">> :> 7)

\* C26: a call of handleConfigPost() sets every Config field whose form key is
\* present to the submitted value (the integer read from the text for the
\* reboot hour and minute, out of range or not), keeps every other field,
\* leaves all ten fields in the Preferences namespace, answers 200 and ends in
\* a restart, with an empty form too.
C26_ConfigPostFrame ==
  [][(pc = "loop_top" /\ pc' = "restart") =>
       /\ \A kf \in C26_TextFields :
            /\ config'[kf[2]] = (IF kf[1] \in DOMAIN devReq.args THEN devReq.args[kf[1]]
                                 ELSE config[kf[2]])
            /\ kf[1] \in DOMAIN prefs' /\ prefs'[kf[1]] = config'[kf[2]]
       /\ \A k \in C26_NumberFields :
            /\ config'[k] = (IF k \in DOMAIN devReq.args THEN C26_Value[devReq.args[k]]
                             ELSE config[k])
            /\ k \in DOMAIN prefs' /\ prefs'[k] = config'[k]
       /\ devResp'.code = 200
       /\ millis' = millis + 1500]_vars

\* The handler has taken hour 99 and minute -1 from a form, kept the stored
\* flag-service URL and network name, saved and gone to the restart.
C26_Witness ==
  /\ pc = "restart" /\ devResp.code = 200
  /\ config.reboot_hour = 99 /\ config.reboot_minute = -1
  /\ config.api_url = "http://flag.local/" /\ config.wifi_ssid = "home"
  /\ prefs = saveConfig(NoPrefs, config)
\* C27: from setup() on the pin is LOW exactly during the dwell of
\* triggerRelay(); while it stays LOW the firmware does nothing (no request is
\* answered or taken from the server, no poll is issued or finished, no pulse is
\* counted, the uptime counter waits), a pulse starts only with the pin HIGH,
\* from handlePowerOn() or from a poll's answer, and ends 1000 ms later with the
\* pin HIGH.
C27_OneDutyAtATime ==
  /\ [](pc \notin {"off", "boot"} => (relayPin = 0 <=> pc = "relay"))
  /\ [][/\ (relayPin = 0 /\ relayPin' = 0) =>
             /\ UNCHANGED <<ramVars, prefs, devResp, loops, obsVars>>
             /\ devReq' = devReq \/ devReq = NoReq
        /\ (relayPin = 1 /\ relayPin' = 0) =>
             /\ pc \in {"loop_top", "http"} /\ pc' = "relay"
             /\ pulses' = pulses
        /\ (relayPin = 0 /\ relayPin' # 0) =>
             /\ relayPin' = 1 /\ millis' = millis + 1000 /\ pulses' = pulses + 1
             /\ pc' \in {"track", "wifi_check"}
        /\ pulses' # pulses => (relayPin = 0 /\ pulses' = pulses + 1)]_vars

\* A GET /on and a set flag met in one loop iteration: the manual pulse was made
\* and answered, then the poll made a second pulse, 1000 ms each.
C27_Witness ==
  /\ pc = "wifi_check" /\ loops = 1 /\ pulses = 2 /\ relayPin = 1
  /\ devResp.code = 200 /\ devResp.body.kind = "json"
  /\ lastPoll.triggered /\ lastPoll.done
  /\ devResp.body.timestamp + 1000 = millis
\* The GET /set/on requests the backend has handled.
C28_Sets == Cardinality({i \in 1..Len(bhist) : IsSet(bhist[i])})

\* C28: the pulses made by polls, the one in progress included, are never more
\* than the GET /set/on requests handled, and no more even with a flag still
\* set counted as one; a poll starts a pulse only on a set flag and clears it
\* in the same step, and only a GET /set/on sets the flag.
C28_PulsesWithinSets ==
  /\ [](pulses + (IF pc = "relay" THEN 1 ELSE 0) <= C28_Sets)
  /\ [](pulses + (IF pc = "relay" THEN 1 ELSE 0) + (IF isOn THEN 1 ELSE 0) <= C28_Sets)
  /\ [][/\ (pc = "http" /\ pc' = "relay") => (isOn /\ ~isOn')
        /\ (~isOn /\ isOn') => (Len(bhist') = Len(bhist) + 1 /\ IsSet(bhist'[Len(bhist')]))]_vars

\* Two sets, each followed by a poll, have made two pulses.
C28_Witness ==
  /\ pulses = 2 /\ C28_Sets = 2 /\ ~isOn /\ pc = "wifi_check"
  /\ lastPoll.triggered

\* Sets were used up by another client's read and by a lost response: three
\* sets handled, one pulse, the flag clear.
C28_Lossy ==
  /\ pulses = 1 /\ C28_Sets = 3 /\ ~isOn /\ pc = "loop_top"
  /\ \E i \in 1..Len(bhist) : IsRead(bhist[i]) /\ bhist[i].before
\* C29: the connected flag turns true only in the step that ends a connect
\* sequence with the link up; while it is false in loop(), no step sets it,
\* issues a poll, starts a connect sequence or moves the last-good-API time,
\* link up or not, until a restart; and the watchdog step of the first
\* iteration that finds that time more than 3600000 ms back restarts the device.
C29_NoRecoveryWithoutRestart ==
  [][/\ (~wifiConnected /\ wifiConnected') =>
          (pc = "connect" /\ pc' # "connect" /\ linkUp)
     /\ (~wifiConnected /\ pc \in ServingPcs) =>
          /\ ~wifiConnected'
          /\ pc' \notin {"http", "connect", "boot", "setup_end"}
          /\ lastGoodAPITime' = lastGoodAPITime
          /\ lastPoll'.sent => lastPoll' = lastPoll
     /\ (~wifiConnected /\ pc = "watchdog" /\ pc' # pc /\ millis - lastGoodAPITime > 3600000) =>
          pc' = "restart"
     /\ (~wifiConnected /\ pc = "watchdog" /\ pc' # pc /\ millis - lastGoodAPITime <= 3600000
          /\ millis - lastGoodWiFiTime <= 3600000) => pc' = "display"]_vars

\* The boot-time connect sequence found no link, the link came up afterwards,
\* no poll was ever issued and the watchdog restarts the device on the API age.
C29_Witness ==
  /\ pc = "restart" /\ lastWatchdog.restart /\ ~wifiConnected /\ linkUp
  /\ lastWatchdog.wifiAge = 0 /\ lastWatchdog.apiAge > 3600000
  /\ lastPoll.done /\ ~lastPoll.sent /\ lastPoll.link
  /\ \E i \in 1..Len(logged) : logged[i] = "[00:00:00] WiFi Failed | Check credentials"
C31_NoEarlyWatchdog ==
  /\ [][/\ (pc = "setup_end" /\ pc' # pc) =>
             (lastGoodWiFiTime' = millis /\ lastGoodAPITime' = millis /\ setupDone' = millis)
        /\ (pc = "watchdog" /\ pc' = "restart") =>
             (millis - setupDone > 3600000 /\ millis > 3600000)
        /\ (pc = "watchdog" /\ pc' # pc /\ millis - setupDone <= 3600000) => pc' = "display"]_vars
  /\ [](pc \in ServingPcs => (lastGoodWiFiTime >= setupDone /\ lastGoodAPITime >= setupDone))

\* The link never came up: the boot-time connect gave up after 10000 ms, and the
\* watchdog restarts the device in the first iteration more than an hour later,
\* having let the iteration exactly an hour after setup() pass.
C31_Witness ==
  /\ pc = "restart" /\ lastWatchdog.restart /\ ~linkUp /\ ~wifiConnected /\ events = 0
  /\ setupDone = 10000 /\ millis = setupDone + 3600100 /\ loops = 2
  /\ lastWatchdog.wifiAge = 3600100 /\ lastWatchdog.apiAge = 3600100
\* C32: wherever the firmware is in loop(), the delay before a restart and a
\* connect sequence called from loop() included, rebootedToday is false and
\* lastRebootDay is -1.
C32_GuardNeverSet ==
  (pc \in ServingPcs \cup {"restart"} \/ (pc = "connect" /\ ret = "loop")) =>
    (rebootedToday = FALSE /\ lastRebootDay = -1)

\* The schedule has restarted the device at 03:00 of the first day and the
\* device is in the delay before its second scheduled restart, the same day.
C32_Witness ==
  /\ pc = "restart" /\ schedDays = <<1, 1>> /\ wall = 10800
  /\ rebootedToday = FALSE /\ lastRebootDay = -1
\* C33: with the counter wrapping between a timestamp and the test (timestamp
\* below zero, millis at or above zero in the integers that stand for them),
\* as without a wrap, each time test of loop() decides by the true elapsed
\* time: checkAPI() is called exactly when 5000 ms or more have passed, the
\* watchdog restarts exactly when an age exceeds 3600000 ms, the render tick
\* fires exactly when more than 300 ms and the page switch exactly when more
\* than 5000 ms have passed.
C33_WrapSafeTimers ==
  [][/\ (pc = "track" /\ pc' # pc) =>
          ((pc' = "http") <=> (millis - lastAPICheck >= 5000))
     /\ (pc = "watchdog" /\ pc' # pc) =>
          /\ (pc' = "restart") <=> (millis - lastGoodWiFiTime > 3600000
                                      \/ millis - lastGoodAPITime > 3600000)
          /\ lastWatchdog'.wifiAge = millis - lastGoodWiFiTime
          /\ lastWatchdog'.apiAge = millis - lastGoodAPITime
     /\ (pc = "display" /\ pc' # pc) =>
          /\ lastDisplayAnim' = (IF millis - lastDisplayAnim > 300 THEN millis
                                 ELSE lastDisplayAnim)
          /\ (displayMode' # displayMode) <=> (millis - lastDisplaySwitch > 5000)
          /\ lastDisplaySwitch' = (IF millis - lastDisplaySwitch > 5000 THEN millis
                                   ELSE lastDisplaySwitch)]_vars

\* The counter has wrapped since the last poll and since the last page switch,
\* less than 5000 ms ago: the iteration issued no poll, the watchdog let it
\* pass with the true ages and the page stayed.
C33_Witness ==
  /\ pc = "sched" /\ millis >= 0 /\ millis < 5000
  /\ lastAPICheck < 0 /\ lastGoodAPITime < 0 /\ lastDisplaySwitch < 0
  /\ millis - lastAPICheck < 5000
  /\ lastPoll = NoPoll /\ ~lastWatchdog.restart
  /\ lastWatchdog.apiAge = millis - lastGoodAPITime
  /\ Counter(lastAPICheck).hi = 65535 /\ Counter(millis).hi = 0
====
